---- MODULE Spec2Model ----
(***************************************************************************)
(* Model of the toy transaction engine (src/src/transaction_engine.rs):    *)
(* the accounts and transactions maps of TransactionEngine and the five    *)
(* handlers behind process_transaction.  Amounts are f32 in the source;    *)
(* the model keeps the f32 rounding of + and - on integer-valued amounts.  *)
(***************************************************************************)
EXTENDS Integers, Sequences, FiniteSets, TLC

\* ------------------------------------------------------------------ bounds
\* Clients are 1..NumClients, transaction ids 1..NumTxs, and at most
\* MaxCalls calls of process_transaction are made on one engine.  The input
\* file of run has at most MaxRows rows.
NumClients == 2
NumTxs == 2
MaxCalls == 4
MaxRows == 3

\* Width of the f32 significand (pub type Amount = f32).
MantissaBits == 24

ClientId == 1..NumClients
TransactionId == 1..NumTxs

\* The amounts the inputs carry: a small one and the first power of two at
\* which f32 spacing exceeds 1, so that sums of the two are rounded.
Big == 2 ^ MantissaBits
Amount == {1, Big}

\* Option<Amount>: None is the empty tuple, Some(x) the one-element tuple.
None == << >>
Some(x) == << x >>
IsSome(o) == o # None
Unwrap(o) == o[1]

TransactionType == {"Deposit", "Withdrawal", "Dispute", "Resolve", "Chargeback"}

TransactionProcessingError ==
    { "AccountLocked", "AccountNotFound", "InsufficientFunds",
      "AmountValueNotFound", "TransactionNotFound",
      "AmountNotFoundOnTransactionToDispute",
      "CannotResolveNonDisputedTransaction",
      "CannotDisputeAnAlreadyDisputedTransaction" }

\* ------------------------------------------------------- f32 arithmetic
\* Spacing of adjacent f32 values at magnitude m (m a natural number).
RECURSIVE Ulp(_)
Ulp(m) == IF m < 2 ^ MantissaBits THEN 1 ELSE 2 * Ulp(m \div 2)

\* Round a magnitude to the nearest representable value, ties to even.
RoundMag(m) ==
    LET u == Ulp(m)
        q == m \div u
        r == m % u
    IN  IF 2 * r < u THEN q * u
        ELSE IF 2 * r > u THEN (q + 1) * u
        ELSE IF q % 2 = 0 THEN q * u ELSE (q + 1) * u

RoundF32(x) == IF x < 0 THEN -RoundMag(-x) ELSE RoundMag(x)

f32_add(a, b) == RoundF32(a + b)
f32_sub(a, b) == RoundF32(a - b)

\* ------------------------------------------------------------ data model
\* Records list their fields in the order of first occurrence in this module,
\* which is the order TLC keeps record fields in.
TransactionInput(kind, client, tx, amount) ==
    [kind |-> kind, client |-> client, tx |-> tx, amount |-> amount]

AccountDetails(available, held, total, locked) ==
    [available |-> available, held |-> held, total |-> total, locked |-> locked]

TransactionDetails(kind, client, amount, is_disputed) ==
    [kind |-> kind, client |-> client, amount |-> amount,
     is_disputed |-> is_disputed]

\* HashMap::insert: the entry under key k is created or overwritten.
Insert(m, k, v) == [x \in (DOMAIN m) \cup {k} |-> IF x = k THEN v ELSE m[x]]

\* What a handler leaves behind: the two maps and the returned Result.
Outcome(acc, txs, res) == [accounts |-> acc, transactions |-> txs, result |-> res]

\* ---------------------------------------------------------------- handlers
\* Each handler maps the two maps before the call to the maps after it and
\* the returned Result ("Ok" or the error's name).

\* Mutant of process_deposit_transaction: the account is stored anew from the
\* deposit alone instead of being updated from the previous account.
process_deposit_transaction_resets_account(acc, txs, transaction_id, client_id, amount) ==
    Outcome(
        Insert(acc, client_id, AccountDetails(f32_add(0, amount), 0,
                                              f32_add(0, amount), FALSE)),
        Insert(txs, transaction_id,
               TransactionDetails("Deposit", client_id, Some(amount), FALSE)),
        "Ok")

\* Mutant of process_deposit_transaction: the record is stored without its
\* amount.
process_deposit_transaction_stores_no_amount(acc, txs, transaction_id, client_id, amount) ==
    LET previous_account_data ==
            IF client_id \in DOMAIN acc THEN acc[client_id]
            ELSE AccountDetails(0, 0, 0, FALSE)
    IN  Outcome(
            Insert(acc, client_id,
                   AccountDetails(f32_add(previous_account_data.available, amount),
                                  previous_account_data.held,
                                  f32_add(previous_account_data.total, amount),
                                  previous_account_data.locked)),
            Insert(txs, transaction_id,
                   TransactionDetails("Deposit", client_id, None, FALSE)),
            "Ok")

process_deposit_transaction(acc, txs, transaction_id, client_id, amount) ==
    LET previous_account_data ==
            IF client_id \in DOMAIN acc THEN acc[client_id]
            ELSE AccountDetails(0, 0, 0, FALSE)
    IN  Outcome(
            Insert(acc, client_id,
                   AccountDetails(f32_add(previous_account_data.available, amount),
                                  previous_account_data.held,
                                  f32_add(previous_account_data.total, amount),
                                  previous_account_data.locked)),
            Insert(txs, transaction_id,
                   TransactionDetails("Deposit", client_id, Some(amount), FALSE)),
            "Ok")

\* Mutant of process_withdrawal_transaction: the record is stored before the
\* funds are compared, so a refused withdrawal leaves a record behind.
process_withdrawal_transaction_records_first(acc, txs, transaction_id, client_id, amount) ==
    IF client_id \in DOMAIN acc
    THEN LET account == acc[client_id]
             stored == Insert(txs, transaction_id,
                              TransactionDetails("Deposit", client_id,
                                                 Some(amount), FALSE))
         IN  IF account.available > amount
             THEN Outcome(
                      Insert(acc, client_id,
                             AccountDetails(f32_sub(account.available, amount),
                                            account.held,
                                            f32_sub(account.total, amount),
                                            account.locked)),
                      stored,
                      "Ok")
             ELSE Outcome(acc, stored, "InsufficientFunds")
    ELSE Outcome(acc, txs, "AccountNotFound")

\* Mutant of process_withdrawal_transaction: the funds are compared with >=,
\* so a withdrawal of exactly the available balance goes through.
process_withdrawal_transaction_inclusive(acc, txs, transaction_id, client_id, amount) ==
    IF client_id \in DOMAIN acc
    THEN LET account == acc[client_id]
         IN  IF account.available >= amount
             THEN Outcome(
                      Insert(acc, client_id,
                             AccountDetails(f32_sub(account.available, amount),
                                            account.held,
                                            f32_sub(account.total, amount),
                                            account.locked)),
                      Insert(txs, transaction_id,
                             TransactionDetails("Deposit", client_id,
                                                Some(amount), FALSE)),
                      "Ok")
             ELSE Outcome(acc, txs, "InsufficientFunds")
    ELSE Outcome(acc, txs, "AccountNotFound")

\* Mutant of process_withdrawal_transaction: the account is fetched with
\* entry().or_insert as in the deposit, so a withdrawal for an unknown client
\* leaves a zeroed account behind.
process_withdrawal_transaction_creates_account(acc, txs, transaction_id, client_id, amount) ==
    LET created == IF client_id \in DOMAIN acc THEN acc
                   ELSE Insert(acc, client_id, AccountDetails(0, 0, 0, FALSE))
        account == created[client_id]
    IN  IF account.available > amount
        THEN Outcome(
                 Insert(created, client_id,
                        AccountDetails(f32_sub(account.available, amount),
                                       account.held,
                                       f32_sub(account.total, amount),
                                       account.locked)),
                 Insert(txs, transaction_id,
                        TransactionDetails("Deposit", client_id,
                                           Some(amount), FALSE)),
                 "Ok")
        ELSE Outcome(created, txs, "InsufficientFunds")

\* Mutant of process_withdrawal_transaction: the funds are not compared, the
\* amount is subtracted whatever the available balance.
process_withdrawal_transaction_no_funds_check(acc, txs, transaction_id, client_id, amount) ==
    IF client_id \in DOMAIN acc
    THEN LET account == acc[client_id]
         IN  Outcome(
                 Insert(acc, client_id,
                        AccountDetails(f32_sub(account.available, amount),
                                       account.held,
                                       f32_sub(account.total, amount),
                                       account.locked)),
                 Insert(txs, transaction_id,
                        TransactionDetails("Deposit", client_id, Some(amount),
                                           FALSE)),
                 "Ok")
    ELSE Outcome(acc, txs, "AccountNotFound")

process_withdrawal_transaction(acc, txs, transaction_id, client_id, amount) ==
    IF client_id \in DOMAIN acc
    THEN LET account == acc[client_id]
         IN  IF account.available > amount
             THEN Outcome(
                      Insert(acc, client_id,
                             AccountDetails(f32_sub(account.available, amount),
                                            account.held,
                                            f32_sub(account.total, amount),
                                            account.locked)),
                      \* the source stores kind Deposit for a withdrawal
                      Insert(txs, transaction_id,
                             TransactionDetails("Deposit", client_id,
                                                Some(amount), FALSE)),
                      "Ok")
             ELSE Outcome(acc, txs, "InsufficientFunds")
    ELSE Outcome(acc, txs, "AccountNotFound")

\* Mutant of process_dispute_transaction: the rebuilt account is written with
\* locked false instead of the account's own flag.
process_dispute_transaction_unlocks(acc, txs, transaction_id) ==
    IF transaction_id \in DOMAIN txs
    THEN LET t == txs[transaction_id]
         IN  IF t.is_disputed
             THEN Outcome(acc, txs, "CannotDisputeAnAlreadyDisputedTransaction")
             ELSE IF IsSome(t.amount)
             THEN LET amount == Unwrap(t.amount)
                  IN  IF t.client \in DOMAIN acc
                      THEN LET a == acc[t.client]
                           IN  Outcome(
                                   Insert(acc, t.client,
                                          AccountDetails(f32_sub(a.available, amount),
                                                         f32_add(a.held, amount),
                                                         a.total,
                                                         FALSE)),
                                   Insert(txs, transaction_id,
                                          TransactionDetails(t.kind, t.client,
                                                             t.amount, TRUE)),
                                   "Ok")
                      ELSE Outcome(acc, txs, "AccountNotFound")
             ELSE Outcome(acc, txs, "AmountNotFoundOnTransactionToDispute")
    ELSE Outcome(acc, txs, "TransactionNotFound")

\* Mutant of process_dispute_transaction: a dispute of an id without record
\* is silently accepted instead of failing with TransactionNotFound.
process_dispute_transaction_ignores_unknown(acc, txs, transaction_id) ==
    IF transaction_id \in DOMAIN txs
    THEN LET t == txs[transaction_id]
         IN  IF t.is_disputed
             THEN Outcome(acc, txs, "CannotDisputeAnAlreadyDisputedTransaction")
             ELSE IF IsSome(t.amount)
             THEN LET amount == Unwrap(t.amount)
                  IN  IF t.client \in DOMAIN acc
                      THEN LET a == acc[t.client]
                           IN  Outcome(
                                   Insert(acc, t.client,
                                          AccountDetails(f32_sub(a.available, amount),
                                                         f32_add(a.held, amount),
                                                         a.total,
                                                         a.locked)),
                                   Insert(txs, transaction_id,
                                          TransactionDetails(t.kind, t.client,
                                                             t.amount, TRUE)),
                                   "Ok")
                      ELSE Outcome(acc, txs, "AccountNotFound")
             ELSE Outcome(acc, txs, "AmountNotFoundOnTransactionToDispute")
    ELSE Outcome(acc, txs, "Ok")

\* Mutant of process_dispute_transaction: the is_disputed test is missing, so
\* a record under dispute can be disputed again.
process_dispute_transaction_no_disputed_check(acc, txs, transaction_id) ==
    IF transaction_id \in DOMAIN txs
    THEN LET t == txs[transaction_id]
         IN  IF IsSome(t.amount)
             THEN LET amount == Unwrap(t.amount)
                  IN  IF t.client \in DOMAIN acc
                      THEN LET a == acc[t.client]
                           IN  Outcome(
                                   Insert(acc, t.client,
                                          AccountDetails(f32_sub(a.available, amount),
                                                         f32_add(a.held, amount),
                                                         a.total,
                                                         a.locked)),
                                   Insert(txs, transaction_id,
                                          TransactionDetails(t.kind, t.client,
                                                             t.amount, TRUE)),
                                   "Ok")
                      ELSE Outcome(acc, txs, "AccountNotFound")
             ELSE Outcome(acc, txs, "AmountNotFoundOnTransactionToDispute")
    ELSE Outcome(acc, txs, "TransactionNotFound")

process_dispute_transaction(acc, txs, transaction_id) ==
    IF transaction_id \in DOMAIN txs
    THEN LET t == txs[transaction_id]
         IN  IF t.is_disputed
             THEN Outcome(acc, txs, "CannotDisputeAnAlreadyDisputedTransaction")
             ELSE IF IsSome(t.amount)
             THEN LET amount == Unwrap(t.amount)
                  IN  IF t.client \in DOMAIN acc
                      THEN LET a == acc[t.client]
                           IN  Outcome(
                                   Insert(acc, t.client,
                                          AccountDetails(f32_sub(a.available, amount),
                                                         f32_add(a.held, amount),
                                                         a.total,
                                                         a.locked)),
                                   Insert(txs, transaction_id,
                                          TransactionDetails(t.kind, t.client,
                                                             t.amount, TRUE)),
                                   "Ok")
                      ELSE Outcome(acc, txs, "AccountNotFound")
             ELSE Outcome(acc, txs, "AmountNotFoundOnTransactionToDispute")
    ELSE Outcome(acc, txs, "TransactionNotFound")

\* Mutant of process_resolve_transaction: the is_disputed test is missing, so
\* a record that is not under dispute is resolved all the same.
process_resolve_transaction_no_disputed_check(acc, txs, transaction_id) ==
    IF transaction_id \in DOMAIN txs
    THEN LET t == txs[transaction_id]
         IN  IF IsSome(t.amount)
             THEN LET amount == Unwrap(t.amount)
                  IN  IF t.client \in DOMAIN acc
                      THEN LET a == acc[t.client]
                           IN  Outcome(
                                   Insert(acc, t.client,
                                          AccountDetails(
                                              f32_add(a.available, amount),
                                              f32_sub(a.held, amount),
                                              a.total,
                                              a.locked)),
                                   Insert(txs, transaction_id,
                                          TransactionDetails(t.kind, t.client,
                                                             t.amount, FALSE)),
                                   "Ok")
                      ELSE Outcome(acc, txs, "AccountNotFound")
             ELSE Outcome(acc, txs, "AmountNotFoundOnTransactionToDispute")
    ELSE Outcome(acc, txs, "TransactionNotFound")

process_resolve_transaction(acc, txs, transaction_id) ==
    IF transaction_id \in DOMAIN txs
    THEN LET t == txs[transaction_id]
         IN  IF t.is_disputed
             THEN IF IsSome(t.amount)
                  THEN LET amount == Unwrap(t.amount)
                       IN  IF t.client \in DOMAIN acc
                           THEN LET a == acc[t.client]
                                IN  Outcome(
                                        Insert(acc, t.client,
                                               AccountDetails(
                                                   f32_add(a.available, amount),
                                                   f32_sub(a.held, amount),
                                                   a.total,
                                                   a.locked)),
                                        Insert(txs, transaction_id,
                                               TransactionDetails(t.kind, t.client,
                                                                  t.amount, FALSE)),
                                        "Ok")
                           ELSE Outcome(acc, txs, "AccountNotFound")
                  ELSE Outcome(acc, txs, "AmountNotFoundOnTransactionToDispute")
             ELSE Outcome(acc, txs, "CannotResolveNonDisputedTransaction")
    ELSE Outcome(acc, txs, "TransactionNotFound")

\* Mutant of process_chargeback_transaction: the account keeps its own locked
\* flag instead of being locked.
process_chargeback_transaction_no_lock(acc, txs, transaction_id) ==
    IF transaction_id \in DOMAIN txs
    THEN LET t == txs[transaction_id]
         IN  IF t.is_disputed
             THEN IF IsSome(t.amount)
                  THEN LET amount == Unwrap(t.amount)
                       IN  IF t.client \in DOMAIN acc
                           THEN LET a == acc[t.client]
                                IN  Outcome(
                                        Insert(acc, t.client,
                                               AccountDetails(
                                                   a.available,
                                                   f32_sub(a.held, amount),
                                                   f32_sub(a.total, amount),
                                                   a.locked)),
                                        Insert(txs, transaction_id,
                                               TransactionDetails(t.kind, t.client,
                                                                  t.amount, FALSE)),
                                        "Ok")
                           ELSE Outcome(acc, txs, "AccountNotFound")
                  ELSE Outcome(acc, txs, "AmountNotFoundOnTransactionToDispute")
             ELSE Outcome(acc, txs, "CannotResolveNonDisputedTransaction")
    ELSE Outcome(acc, txs, "TransactionNotFound")

\* Mutant of process_chargeback_transaction: the owner is locked before the
\* is_disputed test, so a refused chargeback still locks the account.
process_chargeback_transaction_locks_first(acc, txs, transaction_id) ==
    IF transaction_id \in DOMAIN txs
    THEN LET t == txs[transaction_id]
             a == acc[t.client]
             amount == Unwrap(t.amount)
         IN  IF t.is_disputed
             THEN Outcome(
                      Insert(acc, t.client,
                             AccountDetails(a.available,
                                            f32_sub(a.held, amount),
                                            f32_sub(a.total, amount),
                                            TRUE)),
                      Insert(txs, transaction_id,
                             TransactionDetails(t.kind, t.client, t.amount, FALSE)),
                      "Ok")
             ELSE Outcome(
                      Insert(acc, t.client,
                             AccountDetails(a.available, a.held, a.total, TRUE)),
                      txs,
                      "CannotResolveNonDisputedTransaction")
    ELSE Outcome(acc, txs, "TransactionNotFound")

\* Mutant of process_chargeback_transaction: the record of a charged-back
\* transaction is removed from the map instead of being kept undisputed.
process_chargeback_transaction_removes_record(acc, txs, transaction_id) ==
    IF transaction_id \in DOMAIN txs
    THEN LET t == txs[transaction_id]
             a == acc[t.client]
             amount == Unwrap(t.amount)
         IN  IF t.is_disputed
             THEN Outcome(
                      Insert(acc, t.client,
                             AccountDetails(a.available,
                                            f32_sub(a.held, amount),
                                            f32_sub(a.total, amount),
                                            TRUE)),
                      [x \in (DOMAIN txs) \ {transaction_id} |-> txs[x]],
                      "Ok")
             ELSE Outcome(acc, txs, "CannotResolveNonDisputedTransaction")
    ELSE Outcome(acc, txs, "TransactionNotFound")

\* Mutant of process_chargeback_transaction: the owner's account is closed
\* (removed from the map) instead of being locked.
process_chargeback_transaction_closes_account(acc, txs, transaction_id) ==
    IF transaction_id \in DOMAIN txs
    THEN LET t == txs[transaction_id]
         IN  IF t.is_disputed
             THEN IF IsSome(t.amount)
                  THEN IF t.client \in DOMAIN acc
                       THEN Outcome(
                                [c \in DOMAIN acc \ {t.client} |-> acc[c]],
                                Insert(txs, transaction_id,
                                       TransactionDetails(t.kind, t.client,
                                                          t.amount, FALSE)),
                                "Ok")
                       ELSE Outcome(acc, txs, "AccountNotFound")
                  ELSE Outcome(acc, txs, "AmountNotFoundOnTransactionToDispute")
             ELSE Outcome(acc, txs, "CannotResolveNonDisputedTransaction")
    ELSE Outcome(acc, txs, "TransactionNotFound")

process_chargeback_transaction(acc, txs, transaction_id) ==
    IF transaction_id \in DOMAIN txs
    THEN LET t == txs[transaction_id]
         IN  IF t.is_disputed
             THEN IF IsSome(t.amount)
                  THEN LET amount == Unwrap(t.amount)
                       IN  IF t.client \in DOMAIN acc
                           THEN LET a == acc[t.client]
                                IN  Outcome(
                                        Insert(acc, t.client,
                                               AccountDetails(
                                                   a.available,
                                                   f32_sub(a.held, amount),
                                                   f32_sub(a.total, amount),
                                                   TRUE)),
                                        Insert(txs, transaction_id,
                                               TransactionDetails(t.kind, t.client,
                                                                  t.amount, FALSE)),
                                        "Ok")
                           ELSE Outcome(acc, txs, "AccountNotFound")
                  ELSE Outcome(acc, txs, "AmountNotFoundOnTransactionToDispute")
             ELSE Outcome(acc, txs, "CannotResolveNonDisputedTransaction")
    ELSE Outcome(acc, txs, "TransactionNotFound")

\* The guard applied before the dispatch: the account of the input's client
\* exists and is locked.
IsLocked(acc, client) == client \in DOMAIN acc /\ acc[client].locked

\* Mutant of process_transaction: Deposit and Withdrawal look at the amount
\* before the locked guard.
process_transaction_amount_before_guard(acc, txs, transaction) ==
    IF transaction.kind \in {"Deposit", "Withdrawal"}
       /\ ~IsSome(transaction.amount)
    THEN Outcome(acc, txs, "AmountValueNotFound")
    ELSE IF IsLocked(acc, transaction.client)
    THEN Outcome(acc, txs, "AccountLocked")
    ELSE CASE transaction.kind = "Deposit" ->
                process_deposit_transaction(acc, txs, transaction.tx,
                    transaction.client, Unwrap(transaction.amount))
           [] transaction.kind = "Withdrawal" ->
                process_withdrawal_transaction(acc, txs, transaction.tx,
                    transaction.client, Unwrap(transaction.amount))
           [] transaction.kind = "Dispute" ->
                process_dispute_transaction(acc, txs, transaction.tx)
           [] transaction.kind = "Resolve" ->
                process_resolve_transaction(acc, txs, transaction.tx)
           [] transaction.kind = "Chargeback" ->
                process_chargeback_transaction(acc, txs, transaction.tx)

\* Mutant of process_transaction: a Withdrawal looks for the account before
\* it looks at the amount.
process_transaction_account_before_amount(acc, txs, transaction) ==
    IF IsLocked(acc, transaction.client)
    THEN Outcome(acc, txs, "AccountLocked")
    ELSE CASE transaction.kind = "Deposit" ->
                IF IsSome(transaction.amount)
                THEN process_deposit_transaction(acc, txs, transaction.tx,
                         transaction.client, Unwrap(transaction.amount))
                ELSE Outcome(acc, txs, "AmountValueNotFound")
           [] transaction.kind = "Withdrawal" ->
                IF transaction.client \notin DOMAIN acc
                THEN Outcome(acc, txs, "AccountNotFound")
                ELSE IF IsSome(transaction.amount)
                THEN process_withdrawal_transaction(acc, txs, transaction.tx,
                         transaction.client, Unwrap(transaction.amount))
                ELSE Outcome(acc, txs, "AmountValueNotFound")
           [] transaction.kind = "Dispute" ->
                process_dispute_transaction(acc, txs, transaction.tx)
           [] transaction.kind = "Resolve" ->
                process_resolve_transaction(acc, txs, transaction.tx)
           [] transaction.kind = "Chargeback" ->
                process_chargeback_transaction(acc, txs, transaction.tx)

\* Mutant of process_transaction: Dispute, Resolve and Chargeback look the
\* account up under the input's client instead of the record's client.
process_transaction_acts_on_sender(acc, txs, transaction) ==
    IF IsLocked(acc, transaction.client)
    THEN Outcome(acc, txs, "AccountLocked")
    ELSE CASE transaction.kind = "Deposit" ->
                IF IsSome(transaction.amount)
                THEN process_deposit_transaction(acc, txs, transaction.tx,
                         transaction.client, Unwrap(transaction.amount))
                ELSE Outcome(acc, txs, "AmountValueNotFound")
           [] transaction.kind = "Withdrawal" ->
                IF IsSome(transaction.amount)
                THEN process_withdrawal_transaction(acc, txs, transaction.tx,
                         transaction.client, Unwrap(transaction.amount))
                ELSE Outcome(acc, txs, "AmountValueNotFound")
           [] OTHER ->
                IF transaction.tx \notin DOMAIN txs
                THEN Outcome(acc, txs, "TransactionNotFound")
                ELSE LET owner == txs[transaction.tx].client
                         as_sender ==
                             [txs EXCEPT ![transaction.tx].client =
                                             transaction.client]
                         out ==
                             CASE transaction.kind = "Dispute" ->
                                    process_dispute_transaction(acc, as_sender,
                                                                transaction.tx)
                               [] transaction.kind = "Resolve" ->
                                    process_resolve_transaction(acc, as_sender,
                                                                transaction.tx)
                               [] transaction.kind = "Chargeback" ->
                                    process_chargeback_transaction(acc, as_sender,
                                                                   transaction.tx)
                     IN  Outcome(out.accounts,
                                 [out.transactions EXCEPT
                                      ![transaction.tx].client = owner],
                                 out.result)

process_transaction(acc, txs, transaction) ==
    IF IsLocked(acc, transaction.client)
    THEN Outcome(acc, txs, "AccountLocked")
    ELSE CASE transaction.kind = "Deposit" ->
                IF IsSome(transaction.amount)
                THEN process_deposit_transaction(acc, txs, transaction.tx,
                         transaction.client, Unwrap(transaction.amount))
                ELSE Outcome(acc, txs, "AmountValueNotFound")
           [] transaction.kind = "Withdrawal" ->
                IF IsSome(transaction.amount)
                THEN process_withdrawal_transaction(acc, txs, transaction.tx,
                         transaction.client, Unwrap(transaction.amount))
                ELSE Outcome(acc, txs, "AmountValueNotFound")
           [] transaction.kind = "Dispute" ->
                process_dispute_transaction(acc, txs, transaction.tx)
           [] transaction.kind = "Resolve" ->
                process_resolve_transaction(acc, txs, transaction.tx)
           [] transaction.kind = "Chargeback" ->
                process_chargeback_transaction(acc, txs, transaction.tx)

\* ------------------------------------------------------------ state machine
\* accounts, transactions: the two maps of TransactionEngine.
\* input, result: the row handed to the latest call and what it returned.
\* calls: how many calls were made.
\* charged_back: history, the transaction ids a Chargeback has succeeded on.
\* stream: the rows of the input file of run, in file order.
\* pc: where run is: "loop" in its for loop, "done" after
\*     print_accounts_state, "failed" after it returned the reader's error.
\* log: history, the rows run has handed to process_transaction so far.
VARIABLES accounts, transactions, input, result, calls, charged_back,
          stream, pc, log

vars == << accounts, transactions, input, result, calls, charged_back,
           stream, pc, log >>

\* The variables of run's loop, which the engine does not touch.
run_vars == << stream, pc, log >>

\* The empty map.
EmptyMap == [x \in {} |-> 0]

\* The value of input before the first call: no row has been read.
NoInput == TransactionInput("None", 0, 0, None)

\* TransactionEngine::new(): both maps empty; no call made yet.
Init ==
    /\ accounts = EmptyMap
    /\ transactions = EmptyMap
    /\ input = NoInput
    /\ result = "None"
    /\ calls = 0
    /\ charged_back = {}
    /\ stream = << >>
    /\ pc = "loop"
    /\ log = << >>

\* One call engine.process_transaction(transaction).
Call(transaction) ==
    LET out == process_transaction(accounts, transactions, transaction)
    IN  /\ calls < MaxCalls
        /\ accounts' = out.accounts
        /\ transactions' = out.transactions
        /\ input' = transaction
        /\ result' = out.result
        /\ calls' = calls + 1
        /\ charged_back' =
              IF transaction.kind = "Chargeback" /\ out.result = "Ok"
              THEN charged_back \cup {transaction.tx}
              ELSE charged_back
        /\ UNCHANGED run_vars

\* The amounts a row can carry: present or absent.
OptAmount == {None} \cup {Some(a) : a \in Amount}

\* Every row the actions below can hand to process_transaction.
Inputs ==
    {TransactionInput(k, c, t, a) :
        k \in {"Deposit", "Withdrawal"}, c \in ClientId, t \in TransactionId,
        a \in OptAmount}
    \cup
    {TransactionInput(k, c, t, None) :
        k \in {"Dispute", "Resolve", "Chargeback"}, c \in ClientId,
        t \in TransactionId}

\* What the call process_transaction(x) would leave behind in this state.
After(x) == process_transaction(accounts, transactions, x)

Deposit ==
    \E c \in ClientId, t \in TransactionId, a \in OptAmount :
        Call(TransactionInput("Deposit", c, t, a))

Withdrawal ==
    \E c \in ClientId, t \in TransactionId, a \in OptAmount :
        Call(TransactionInput("Withdrawal", c, t, a))

Dispute ==
    \E c \in ClientId, t \in TransactionId :
        Call(TransactionInput("Dispute", c, t, None))

Resolve ==
    \E c \in ClientId, t \in TransactionId :
        Call(TransactionInput("Resolve", c, t, None))

Chargeback ==
    \E c \in ClientId, t \in TransactionId :
        Call(TransactionInput("Chargeback", c, t, None))

Next == Deposit \/ Withdrawal \/ Dispute \/ Resolve \/ Chargeback

Spec == Init /\ [][Next]_vars

\* ------------------------------------------------------------------- run
\* run (lib.rs): a new engine, then for each row of the reader, in file
\* order, one call of process_transaction whose error is printed and
\* dropped, then print_accounts_state.  A row the reader cannot deserialize
\* makes run return that error at once (row_result?).

\* The rows of the input files: the rows about client 1 and transaction 1
\* with no amount or the amount 1.
Rows == {x \in Inputs : x.client = 1 /\ x.tx = 1 /\ x.amount # Some(Big)}

\* What the reader yields for a row it cannot deserialize.
ReaderError == TransactionInput("ReaderError", 0, 0, None)

\* The input files: every sequence of at most MaxRows rows, well-formed or
\* not.
Streams == UNION {[1..n -> Rows \cup {ReaderError}] : n \in 0..MaxRows}

\* TransactionEngine::new() and the reader opened on one input file.
RunInit ==
    /\ accounts = EmptyMap
    /\ transactions = EmptyMap
    /\ input = NoInput
    /\ result = "None"
    /\ calls = 0
    /\ charged_back = {}
    /\ stream \in Streams
    /\ pc = "loop"
    /\ log = << >>

\* Mutant of RunStep: an error of process_transaction is propagated (as with
\* the ? operator) and ends run before the rows after it.
RunStep_propagates_error ==
    /\ pc = "loop"
    /\ calls < Len(stream)
    /\ LET transaction == stream[calls + 1]
           out == process_transaction(accounts, transactions, transaction)
       IN  IF transaction = ReaderError
           THEN /\ pc' = "failed"
                /\ UNCHANGED << accounts, transactions, input, result, calls,
                                charged_back, stream, log >>
           ELSE /\ accounts' = out.accounts
                /\ transactions' = out.transactions
                /\ input' = transaction
                /\ result' = out.result
                /\ calls' = calls + 1
                /\ charged_back' =
                      IF transaction.kind = "Chargeback" /\ out.result = "Ok"
                      THEN charged_back \cup {transaction.tx}
                      ELSE charged_back
                /\ log' = Append(log, transaction)
                /\ pc' = IF out.result = "Ok" THEN "loop" ELSE "failed"
                /\ UNCHANGED stream

\* One iteration of the for loop: a row the reader cannot deserialize ends
\* run with that error; any other row goes to process_transaction, whose
\* error is printed and the loop goes on.
RunStep ==
    /\ pc = "loop"
    /\ calls < Len(stream)
    /\ LET transaction == stream[calls + 1]
           out == process_transaction(accounts, transactions, transaction)
       IN  IF transaction = ReaderError
           THEN /\ pc' = "failed"
                /\ UNCHANGED << accounts, transactions, input, result, calls,
                                charged_back, stream, log >>
           ELSE /\ accounts' = out.accounts
                /\ transactions' = out.transactions
                /\ input' = transaction
                /\ result' = out.result
                /\ calls' = calls + 1
                /\ charged_back' =
                      IF transaction.kind = "Chargeback" /\ out.result = "Ok"
                      THEN charged_back \cup {transaction.tx}
                      ELSE charged_back
                /\ log' = Append(log, transaction)
                /\ UNCHANGED << stream, pc >>

\* The reader is exhausted: print_accounts_state prints the accounts map and
\* run returns.
RunFinish ==
    /\ pc = "loop"
    /\ calls = Len(stream)
    /\ pc' = "done"
    /\ UNCHANGED << accounts, transactions, input, result, calls,
                    charged_back, stream, log >>

RunNext == RunStep \/ RunFinish

\* run is sequential code without blocking calls: it keeps taking its next
\* step until it returns.
RunSpec == RunInit /\ [][RunNext]_vars /\ WF_vars(RunNext)

\* The shape of every reachable state.
TypeOK ==
    /\ DOMAIN accounts \subseteq ClientId
    /\ DOMAIN transactions \subseteq TransactionId
    /\ \A c \in DOMAIN accounts : accounts[c].locked \in BOOLEAN
    /\ \A t \in DOMAIN transactions :
          /\ transactions[t].client \in ClientId
          /\ transactions[t].is_disputed \in BOOLEAN
    /\ result \in TransactionProcessingError \cup {"Ok", "None"}
    /\ calls \in 0..MaxCalls
    /\ charged_back \subseteq DOMAIN transactions
    /\ pc \in {"loop", "done", "failed"}
    /\ log = SubSeq(stream, 1, Len(log))

\* The call just made left both maps as they were.
MapsUnchanged == accounts' = accounts /\ transactions' = transactions

\* ------------------------------------------------------------------ claims

\* C1: in every reachable state every account satisfies
\* total == available + held (the sum taken in f32, as the source computes).
C1_TotalIsAvailablePlusHeld ==
    \A c \in DOMAIN accounts :
        accounts[c].total = f32_add(accounts[c].available, accounts[c].held)

\* C2: once an account is locked, no later call of any kind changes its
\* available, held or total.
C2_LockedBalancesFrozen ==
    [][\A c \in DOMAIN accounts :
          accounts[c].locked =>
              /\ c \in DOMAIN accounts'
              /\ accounts'[c].available = accounts[c].available
              /\ accounts'[c].held = accounts[c].held
              /\ accounts'[c].total = accounts[c].total]_vars

\* C3: whatever the kind of the input, when the account of the input's client
\* exists and is locked the call returns AccountLocked (ahead of any other
\* error) and leaves both maps unchanged.
C3_LockedGuardFirst ==
    [][IsLocked(accounts, input'.client) =>
          (result' = "AccountLocked" /\ MapsUnchanged)]_vars

\* C3 witness: a Withdrawal without amount on a locked account was answered
\* AccountLocked, not AmountValueNotFound.
C3_Witness ==
    /\ input.kind = "Withdrawal"
    /\ input.amount = None
    /\ IsLocked(accounts, input.client)
    /\ result = "AccountLocked"

\* C4: a call that returns an error leaves accounts and transactions unchanged.
C4_ErrorLeavesStateUnchanged ==
    [][result' # "Ok" => MapsUnchanged]_vars

\* C4 witness: a Withdrawal was refused for insufficient funds on an engine
\* that holds an account and a record.
C4_Witness ==
    /\ result = "InsufficientFunds"
    /\ input.kind = "Withdrawal"
    /\ input.client \in DOMAIN accounts
    /\ DOMAIN transactions # {}

\* C5: a record, once stored under an id, stays stored under it with the same
\* client and the same amount, whatever inputs follow.
C5_RecordClientAmountStable ==
    [][\A t \in DOMAIN transactions :
          /\ t \in DOMAIN transactions'
          /\ transactions'[t].client = transactions[t].client
          /\ transactions'[t].amount = transactions[t].amount]_vars

\* C6: locked is monotone: no call takes an account from locked to unlocked.
C6_LockedMonotone ==
    [][\A c \in DOMAIN accounts :
          accounts[c].locked =>
              (c \in DOMAIN accounts' /\ accounts'[c].locked)]_vars

\* C6 witness: a Dispute sent by another client succeeded on a record whose
\* owner is locked, and the owner is still locked.
C6_Witness ==
    /\ input.kind = "Dispute"
    /\ result = "Ok"
    /\ input.tx \in charged_back
    /\ IsLocked(accounts, transactions[input.tx].client)

\* C7: after a successful Chargeback of id t, every later Dispute, Resolve or
\* Chargeback naming t, whatever its client field, returns an error and
\* changes no account and no record.
C7_ChargedBackIsTerminal ==
    [][(input'.kind \in {"Dispute", "Resolve", "Chargeback"}
         /\ input'.tx \in charged_back) =>
          (result' # "Ok" /\ MapsUnchanged)]_vars

\* C8 as stated: a Dispute whose id has no record always fails with
\* TransactionNotFound and changes nothing.
C8_Original ==
    [][(input'.kind = "Dispute" /\ input'.tx \notin DOMAIN transactions) =>
          (result' = "TransactionNotFound" /\ MapsUnchanged)]_vars

\* C8 amended: a Dispute whose id has no record always fails and changes
\* nothing; the error is AccountLocked when the account of the input's client
\* is locked and TransactionNotFound otherwise.
C8_DisputeUnknownTxFails ==
    [][(input'.kind = "Dispute" /\ input'.tx \notin DOMAIN transactions) =>
          /\ result' = IF IsLocked(accounts, input'.client)
                       THEN "AccountLocked" ELSE "TransactionNotFound"
          /\ MapsUnchanged]_vars

\* C8 witness: a Dispute of an id without record was answered
\* TransactionNotFound while another id has a record.
C8_Witness ==
    /\ input.kind = "Dispute"
    /\ input.tx \notin DOMAIN transactions
    /\ DOMAIN transactions # {}
    /\ result = "TransactionNotFound"

\* C9: is_disputed of a record becomes true only by a successful Dispute of
\* that id and false again only by a successful Resolve or Chargeback of that
\* id; no other call changes it.
C9_DisputeStateMachine ==
    [][\A t \in DOMAIN transactions :
          (t \in DOMAIN transactions'
             /\ transactions'[t].is_disputed # transactions[t].is_disputed) =>
              /\ result' = "Ok"
              /\ input'.tx = t
              /\ IF transactions'[t].is_disputed
                 THEN input'.kind = "Dispute"
                 ELSE input'.kind \in {"Resolve", "Chargeback"}]_vars

\* Sum of the stored amounts of the records in ts.
RECURSIVE SumAmounts(_)
SumAmounts(ts) ==
    IF ts = {} THEN 0
    ELSE LET t == CHOOSE x \in ts : TRUE
         IN  Unwrap(transactions[t].amount) + SumAmounts(ts \ {t})

\* The records owned by c that are under dispute.
OpenDisputes(c) ==
    {t \in DOMAIN transactions :
        transactions[t].client = c /\ transactions[t].is_disputed}

\* C10: for every account, held equals the sum of the stored amounts of the
\* owner's records that are under dispute.
C10_HeldIsSumOfOpenDisputes ==
    \A c \in DOMAIN accounts : accounts[c].held = SumAmounts(OpenDisputes(c))

\* C11: a Withdrawal with an amount, sent for a client that is not locked,
\* fails with AccountNotFound when the client has no account, fails with
\* InsufficientFunds when available <= amount, both with the state unchanged,
\* and otherwise succeeds: available and total are each decreased by the
\* amount (f32 subtraction), held and locked are kept, and an undisputed
\* record with the client and the amount is stored under tx.
C11_WithdrawalContract ==
    [][(input'.kind = "Withdrawal" /\ IsSome(input'.amount)
          /\ ~IsLocked(accounts, input'.client)) =>
          LET c == input'.client
              amt == Unwrap(input'.amount)
          IN  IF c \notin DOMAIN accounts
              THEN result' = "AccountNotFound" /\ MapsUnchanged
              ELSE IF accounts[c].available <= amt
              THEN result' = "InsufficientFunds" /\ MapsUnchanged
              ELSE /\ result' = "Ok"
                   /\ accounts'[c] =
                        AccountDetails(f32_sub(accounts[c].available, amt),
                                       accounts[c].held,
                                       f32_sub(accounts[c].total, amt),
                                       accounts[c].locked)
                   /\ input'.tx \in DOMAIN transactions'
                   /\ transactions'[input'.tx].client = c
                   /\ transactions'[input'.tx].amount = Some(amt)
                   /\ ~transactions'[input'.tx].is_disputed]_vars

\* C11 witness: a Withdrawal of exactly the available balance was refused.
C11_Witness ==
    /\ input.kind = "Withdrawal"
    /\ IsSome(input.amount)
    /\ result = "InsufficientFunds"
    /\ accounts[input.client].available = Unwrap(input.amount)

\* C12: a Deposit with an amount, sent for a client that is absent or not
\* locked, succeeds: the account (zeroed if it was absent) has available and
\* total each increased by the amount (f32 addition) and held and locked
\* kept, no other account changes, and an undisputed record with the client
\* and the amount is stored under tx.
C12_DepositContract ==
    [][(input'.kind = "Deposit" /\ IsSome(input'.amount)
          /\ ~IsLocked(accounts, input'.client)) =>
          LET c == input'.client
              amt == Unwrap(input'.amount)
              prev == IF c \in DOMAIN accounts THEN accounts[c]
                      ELSE AccountDetails(0, 0, 0, FALSE)
          IN  /\ result' = "Ok"
              /\ DOMAIN accounts' = DOMAIN accounts \cup {c}
              /\ accounts'[c] =
                   AccountDetails(f32_add(prev.available, amt), prev.held,
                                  f32_add(prev.total, amt), prev.locked)
              /\ \A d \in DOMAIN accounts \ {c} : accounts'[d] = accounts[d]
              /\ input'.tx \in DOMAIN transactions'
              /\ transactions'[input'.tx].client = c
              /\ transactions'[input'.tx].amount = Some(amt)
              /\ ~transactions'[input'.tx].is_disputed]_vars

\* C12 witness: a Deposit succeeded on an account that holds disputed funds
\* while another client has an account.
C12_Witness ==
    /\ input.kind = "Deposit"
    /\ result = "Ok"
    /\ accounts[input.client].held > 0
    /\ DOMAIN accounts # {input.client}

\* C13: a Dispute sent by a client that is not locked, of an existing record:
\* when the record is not under dispute it succeeds, the owner's available is
\* decreased and held increased by the record's amount (f32), total and
\* locked are kept and the record is marked disputed; when the record is
\* under dispute it fails with CannotDisputeAnAlreadyDisputedTransaction and
\* changes nothing.
C13_DisputeContract ==
    [][(input'.kind = "Dispute" /\ ~IsLocked(accounts, input'.client)
          /\ input'.tx \in DOMAIN transactions) =>
          LET t == transactions[input'.tx]
              amt == Unwrap(t.amount)
              a == accounts[t.client]
          IN  IF t.is_disputed
              THEN /\ result' = "CannotDisputeAnAlreadyDisputedTransaction"
                   /\ MapsUnchanged
              ELSE /\ result' = "Ok"
                   /\ accounts'[t.client] =
                        AccountDetails(f32_sub(a.available, amt),
                                       f32_add(a.held, amt), a.total, a.locked)
                   /\ transactions'[input'.tx] =
                        TransactionDetails(t.kind, t.client, t.amount, TRUE)]_vars

\* C13 witness: a second Dispute of a record under dispute was refused.
C13_Witness ==
    /\ input.kind = "Dispute"
    /\ result = "CannotDisputeAnAlreadyDisputedTransaction"
    /\ transactions[input.tx].is_disputed
    /\ accounts[transactions[input.tx].client].held > 0

\* The outcome o of Chargeback x applied to the maps acc, txs is the success
\* C14 describes: the owner's held and total are each decreased by the
\* record's amount (f32), available is kept, the owner is locked, the record
\* is no longer under dispute, and every further input of the owning client
\* is answered AccountLocked.
ChargebackSucceeded(acc, txs, x, o) ==
    LET t == txs[x.tx]
        amt == Unwrap(t.amount)
        a == acc[t.client]
    IN  /\ o.result = "Ok"
        /\ o.accounts[t.client] =
             AccountDetails(a.available, f32_sub(a.held, amt),
                            f32_sub(a.total, amt), TRUE)
        /\ o.transactions[x.tx] =
             TransactionDetails(t.kind, t.client, t.amount, FALSE)
        /\ \A y \in Inputs :
              y.client = t.client =>
                  process_transaction(o.accounts, o.transactions, y).result
                      = "AccountLocked"

\* C14 as stated: a Chargeback of a record under dispute succeeds, whoever
\* sends it, with the effects above.
C14_Original ==
    \A x \in Inputs :
        (x.kind = "Chargeback" /\ x.tx \in DOMAIN transactions
           /\ transactions[x.tx].is_disputed) =>
            ChargebackSucceeded(accounts, transactions, x, After(x))

\* C14 amended: a Chargeback of a record under dispute, sent by a client whose
\* account is absent or not locked, succeeds with the effects above.
C14_ChargebackContract ==
    [][(input'.kind = "Chargeback" /\ ~IsLocked(accounts, input'.client)
          /\ input'.tx \in DOMAIN transactions
          /\ transactions[input'.tx].is_disputed) =>
          ChargebackSucceeded(accounts, transactions, input',
                              Outcome(accounts', transactions', result'))]_vars

\* C14 witness: a Chargeback succeeded and left the owner locked with nothing
\* held and the record no longer under dispute.
C14_Witness ==
    /\ input.kind = "Chargeback"
    /\ result = "Ok"
    /\ ~transactions[input.tx].is_disputed
    /\ IsLocked(accounts, transactions[input.tx].client)
    /\ accounts[transactions[input.tx].client].held = 0

\* C15: in any state where a Dispute of id t succeeds, the Resolve of t applied
\* right after it succeeds too and restores the owner's available, held,
\* total and locked and the record's is_disputed to their values before the
\* Dispute.
C15_ResolveUndoesDispute ==
    \A x \in Inputs :
        (x.kind = "Dispute" /\ After(x).result = "Ok") =>
            LET disputed == After(x)
                owner == transactions[x.tx].client
                resolved ==
                    process_transaction(disputed.accounts, disputed.transactions,
                        TransactionInput("Resolve", x.client, x.tx, None))
            IN  /\ resolved.result = "Ok"
                /\ resolved.accounts[owner] = accounts[owner]
                /\ resolved.transactions[x.tx].is_disputed
                     = transactions[x.tx].is_disputed

\* C16: a Resolve or Chargeback sent by a client that is not locked fails
\* with TransactionNotFound when the id has no record and with
\* CannotResolveNonDisputedTransaction when the record is not under dispute;
\* either way nothing changes.
C16_ResolveChargebackRefused ==
    [][(input'.kind \in {"Resolve", "Chargeback"}
          /\ ~IsLocked(accounts, input'.client)) =>
          IF input'.tx \notin DOMAIN transactions
          THEN result' = "TransactionNotFound" /\ MapsUnchanged
          ELSE ~transactions[input'.tx].is_disputed =>
                  /\ result' = "CannotResolveNonDisputedTransaction"
                  /\ MapsUnchanged]_vars

\* C16 witness: a Resolve of a record that is not under dispute was refused.
C16_Witness ==
    /\ input.kind = "Resolve"
    /\ result = "CannotResolveNonDisputedTransaction"
    /\ input.tx \in DOMAIN transactions
    /\ ~transactions[input.tx].is_disputed

\* C17: when a call returns an error, the same input applied again right
\* after it returns the same error.
C17_RejectionIdempotent ==
    [][result' # "Ok" =>
          process_transaction(accounts', transactions', input').result
              = result']_vars

\* C17 witness: a Dispute of a record under dispute was refused, and sending
\* it again is refused with the same error.
C17_Witness ==
    /\ input.kind = "Dispute"
    /\ result = "CannotDisputeAnAlreadyDisputedTransaction"
    /\ After(input).result = "CannotDisputeAnAlreadyDisputedTransaction"

\* C18: a Deposit or Withdrawal without amount, sent for a client that is
\* absent or not locked, fails with AmountValueNotFound (for a Withdrawal
\* also when the client has no account) and creates no account and no record.
C18_MissingAmount ==
    [][(input'.kind \in {"Deposit", "Withdrawal"} /\ input'.amount = None
          /\ ~IsLocked(accounts, input'.client)) =>
          (result' = "AmountValueNotFound" /\ MapsUnchanged)]_vars

\* C18 witness: a Withdrawal without amount for a client without account was
\* answered AmountValueNotFound and the client still has no account.
C18_Witness ==
    /\ input.kind = "Withdrawal"
    /\ input.amount = None
    /\ input.client \notin DOMAIN accounts
    /\ result = "AmountValueNotFound"

\* C19: no call removes a key from accounts or from transactions.
C19_KeysOnlyGrow ==
    [][/\ DOMAIN accounts \subseteq DOMAIN accounts'
       /\ DOMAIN transactions \subseteq DOMAIN transactions']_vars

\* C19 witness: a Chargeback succeeded and both the record and the owner's
\* account are still in their maps.
C19_Witness ==
    /\ input.kind = "Chargeback"
    /\ result = "Ok"
    /\ input.tx \in DOMAIN transactions
    /\ transactions[input.tx].client \in DOMAIN accounts

\* C20: only a successful Deposit adds an account, and only a successful
\* Deposit or Withdrawal adds a record.
C20_CreationOnlyByDepositWithdrawal ==
    [][/\ DOMAIN accounts' # DOMAIN accounts =>
             (input'.kind = "Deposit" /\ result' = "Ok")
       /\ DOMAIN transactions' # DOMAIN transactions =>
             (input'.kind \in {"Deposit", "Withdrawal"} /\ result' = "Ok")]_vars

\* C20 witness: a Withdrawal with an amount for a client without account was
\* refused and created no account.
C20_Witness ==
    /\ input.kind = "Withdrawal"
    /\ IsSome(input.amount)
    /\ result = "AccountNotFound"
    /\ input.client \notin DOMAIN accounts

\* C21: every stored record carries an amount, and no call returns
\* AmountNotFoundOnTransactionToDispute.
C21_RecordsCarryAmount ==
    /\ \A t \in DOMAIN transactions : IsSome(transactions[t].amount)
    /\ result # "AmountNotFoundOnTransactionToDispute"

\* C21 witness: a Dispute went past the amount test of a stored record: it
\* succeeded and the record it marked carries its amount.
C21_Witness ==
    /\ input.kind = "Dispute"
    /\ result = "Ok"
    /\ transactions[input.tx].is_disputed
    /\ IsSome(transactions[input.tx].amount)

\* The engine after process_transaction has been applied to each row of s,
\* once and in order, whatever each call returned.
RECURSIVE ApplyAll(_, _, _)
ApplyAll(acc, txs, s) ==
    IF s = << >> THEN Outcome(acc, txs, "Ok")
    ELSE LET out == process_transaction(acc, txs, Head(s))
         IN  ApplyAll(out.accounts, out.transactions, Tail(s))

\* The input stream is a stream of records: the reader deserializes every
\* row.
RecordsOnly == \A i \in 1..Len(stream) : stream[i] \in Rows

C23_StoredKindIsInputKind ==
    [][/\ (input'.kind \in {"Deposit", "Withdrawal"} /\ result' = "Ok") =>
             transactions'[input'.tx].kind = input'.kind
       /\ (input'.kind \in {"Dispute", "Resolve", "Chargeback"}) =>
             \A t \in DOMAIN transactions :
                 transactions'[t].kind = transactions[t].kind]_vars

\* C24: a successful Dispute, Resolve or Chargeback changes only the account
\* of the record's stored client: no account is created, every other account
\* (that of input.client included, when it differs) is left as it was, and
\* the balance change (for Chargeback also the lock) is on the owner's
\* account.
C24_EffectOnRecordOwnerOnly ==
    [][(input'.kind \in {"Dispute", "Resolve", "Chargeback"} /\ result' = "Ok") =>
          LET t == transactions[input'.tx]
              owner == t.client
              amount == Unwrap(t.amount)
              a == accounts[owner]
          IN  /\ DOMAIN accounts' = DOMAIN accounts
              /\ \A c \in DOMAIN accounts \ {owner} : accounts'[c] = accounts[c]
              /\ input'.kind = "Dispute" =>
                     accounts'[owner] =
                         AccountDetails(f32_sub(a.available, amount),
                                        f32_add(a.held, amount), a.total, a.locked)
              /\ input'.kind = "Resolve" =>
                     accounts'[owner] =
                         AccountDetails(f32_add(a.available, amount),
                                        f32_sub(a.held, amount), a.total, a.locked)
              /\ input'.kind = "Chargeback" =>
                     accounts'[owner] =
                         AccountDetails(a.available, f32_sub(a.held, amount),
                                        f32_sub(a.total, amount), TRUE)]_vars

\* C24 witness: a Chargeback sent by a client other than the record's owner
\* succeeded: the sender has an account that is not locked, the owner's
\* account is locked.
C24_Witness ==
    /\ input.kind = "Chargeback"
    /\ result = "Ok"
    /\ transactions[input.tx].client # input.client
    /\ input.client \in DOMAIN accounts
    /\ ~accounts[input.client].locked
    /\ accounts[transactions[input.tx].client].locked

\* C25: the client stored in every record has an entry in accounts, and
\* AccountNotFound is returned to a Withdrawal only, never to a Dispute,
\* Resolve or Chargeback.
C25_RecordOwnerHasAccount ==
    /\ \A t \in DOMAIN transactions : transactions[t].client \in DOMAIN accounts
    /\ result = "AccountNotFound" => input.kind = "Withdrawal"

\* C25 witness: a Dispute sent by a client without account went past the
\* account lookup: it succeeded on the account of the record's owner.
C25_Witness ==
    /\ input.kind = "Dispute"
    /\ result = "Ok"
    /\ input.client \notin DOMAIN accounts
    /\ transactions[input.tx].client \in DOMAIN accounts

\* C26 as stated: with every Deposit and Withdrawal amount non-negative (all
\* amounts of Amount are), available is never negative for any account.
C26_Original ==
    \A c \in DOMAIN accounts : accounts[c].available >= 0

\* C26, amended: with non-negative amounts no Deposit, Withdrawal, Resolve or
\* Chargeback makes an account's available negative; an account's available
\* becomes negative only by a successful Dispute of a record it owns.
C26_AvailableNegativeOnlyByDispute ==
    [][\A c \in DOMAIN accounts' :
          accounts'[c].available < 0 =>
              \/ c \in DOMAIN accounts /\ accounts[c].available < 0
              \/ /\ input'.kind = "Dispute"
                 /\ result' = "Ok"
                 /\ transactions[input'.tx].client = c]_vars

\* C26 witness: a Withdrawal succeeded on an account that has funds held by
\* an open dispute, and left available positive.
C26_Witness ==
    /\ input.kind = "Withdrawal"
    /\ result = "Ok"
    /\ accounts[input.client].held > 0
    /\ accounts[input.client].available > 0

====
